---- MODULE Spec2Model ----
(***************************************************************************)
(* Model of the A/B test calculator (ABTestCalculator component): the form *)
(* state (business metrics and the variant mapping), the handlers that     *)
(* edit it, and the pure functions validateInputs, calculateResults and    *)
(* getRecommendation that every render evaluates over that state.          *)
(*                                                                         *)
(* Numbers.  The form holds JavaScript numbers; the model feeds it small   *)
(* integers.  Derived quantities are exact rationals <<n, d>> (d > 0, in   *)
(* lowest terms); a division by zero yields the IEEE values the code       *)
(* produces (Infinity, -Infinity, NaN), carried as tagged values.  A       *)
(* standard error is a square root, so the model carries its square.       *)
(***************************************************************************)
EXTENDS Integers, Sequences, FiniteSets, TLC

VARIABLES
    businessMetrics,   \* the form's business metrics
    variants,          \* the form's variant mapping, in insertion order
    recArgs,           \* the arguments of a getRecommendation call, or NoCall
    recommendation,    \* what that call returned, or NoRecommendation
    statArgs,          \* the arguments of a call of a statistical function, or NoCall
    statResult,        \* what that call returned, or NoStat
    pdf                \* what exportToPDF wrote, or NoPdf

vars == <<businessMetrics, variants, recArgs, recommendation, statArgs, statResult, pdf>>

form == <<businessMetrics, variants>>

rec == <<recArgs, recommendation>>

stat == <<statArgs, statResult>>

(***************************************************************************)
(* Bounds of the model: the visitor count typed into a form field.         *)
(***************************************************************************)
LargeSample == 25

\* the largest count given to a statistical function called on its own
MaxCount == 4

VisitorValues == {0, 1, LargeSample}

ConversionValues == {-1, 0, 1, LargeSample - 4}

PipelineValues == {0, 1000}

CloseRateValues == {0, 20, 101}

MonthlyVisitorValues == {0, 10000}

\* the required sample size every caller passes
RequiredSample == 10000

ImprovementValues == {-100, -20, -11, -10, -9, 0, 9, 10, 11, 15, 20}

SampleSizeValues ==
    {0, 1, (RequiredSample \div 2) - 1, RequiredSample \div 2, (RequiredSample \div 2) + 1,
     RequiredSample - 1, RequiredSample, RequiredSample + 1, RequiredSample + 2000}

RequiredSampleValues == {RequiredSample - 1, RequiredSample}

(***************************************************************************)
(* Exact rational arithmetic.                                              *)
(***************************************************************************)
Abs(x) == IF x < 0 THEN -x ELSE x

RECURSIVE GCD(_, _)
GCD(a, b) == IF b = 0 THEN a ELSE GCD(b, a % b)

Rat(n, d) ==
    LET g == GCD(Abs(n), Abs(d))
        s == IF d < 0 THEN -1 ELSE 1
    IN  <<(s * n) \div g, (s * d) \div g>>

RInt(n) == <<n, 1>>

RAdd(a, b) ==
    LET g == GCD(a[2], b[2])
    IN  Rat(a[1] * (b[2] \div g) + b[1] * (a[2] \div g), a[2] * (b[2] \div g))

RNeg(a) == <<-a[1], a[2]>>

RSub(a, b) == RAdd(a, RNeg(b))

RMul(a, b) ==
    LET g1 == GCD(Abs(a[1]), b[2])
        g2 == GCD(Abs(b[1]), a[2])
        h1 == IF g1 = 0 THEN 1 ELSE g1
        h2 == IF g2 = 0 THEN 1 ELSE g2
    IN  Rat((a[1] \div h1) * (b[1] \div h2), (a[2] \div h2) * (b[2] \div h1))

RInv(a) == Rat(a[2], a[1])

RAbs(a) == <<Abs(a[1]), a[2]>>

RLess(a, b) ==
    LET g == GCD(a[2], b[2])
    IN  a[1] * (b[2] \div g) < b[1] * (a[2] \div g)

RZero == RInt(0)

(***************************************************************************)
(* JavaScript numbers: a finite value or one of the IEEE special values.   *)
(***************************************************************************)
Fin(r) == [k |-> "fin", v |-> r]

NaN == [k |-> "nan", v |-> RZero]

Infinity == [k |-> "inf", v |-> RZero]

NegInfinity == [k |-> "ninf", v |-> RZero]

\* a / b on finite operands
FDiv(a, b) ==
    IF b # RZero THEN Fin(RMul(a, RInv(b)))
    ELSE IF a = RZero THEN NaN
    ELSE IF RLess(RZero, a) THEN Infinity
    ELSE NegInfinity

\* x * c for a finite c > 0
FScale(x, c) == IF x.k = "fin" THEN Fin(RMul(x.v, c)) ELSE x

\* Math.abs(x) > c for a finite c
FAbsGreater(x, c) ==
    CASE x.k = "fin" -> RLess(c, RAbs(x.v))
      [] x.k = "nan" -> FALSE
      [] OTHER -> TRUE

\* x > c and x < c for a finite c
FGreater(x, c) ==
    CASE x.k = "fin" -> RLess(c, x.v)
      [] x.k = "inf" -> TRUE
      [] OTHER -> FALSE

FLess(x, c) ==
    CASE x.k = "fin" -> RLess(x.v, c)
      [] x.k = "ninf" -> TRUE
      [] OTHER -> FALSE

(***************************************************************************)
(* The variant mapping: a JavaScript object, i.e. entries in insertion     *)
(* order.                                                                  *)
(***************************************************************************)
Keys(vs) == [i \in 1..Len(vs) |-> vs[i].key]

HasKey(vs, key) == \E i \in 1..Len(vs) : vs[i].key = key

Lookup(vs, key) == vs[CHOOSE i \in 1..Len(vs) : vs[i].key = key]

\* {...prev, [key]: value}: an existing key keeps its place, a new one is appended
Put(vs, e) ==
    IF HasKey(vs, e.key)
    THEN [i \in 1..Len(vs) |-> IF vs[i].key = e.key THEN e ELSE vs[i]]
    ELSE Append(vs, e)

MandatoryKeys == <<"control", "variant">>

IsMandatory(key) == key \in {"control", "variant"}

(***************************************************************************)
(* Statistical utility functions.                                          *)
(***************************************************************************)
\* (conversions / visitors) * 100, a percentage
\* mutant: the fraction is returned, not the percentage
calculateConversionRateFraction(conversions, visitors) ==
    IF visitors = 0 THEN RZero
    ELSE Rat(conversions, visitors)

calculateConversionRate(conversions, visitors) ==
    IF visitors = 0 THEN RZero
    ELSE RMul(Rat(conversions, visitors), RInt(100))

\* The square of calculateStandardError(rate, visitors), for a rate in
\* [0, 100] and visitors >= 0 (the radicand is then not negative):
\* (sqrt(p * (1 - p) / visitors) * 100)^2 with p = rate / 100.
calculateStandardErrorSq(rate, visitors) ==
    IF visitors = 0 THEN RZero
    ELSE LET proportion == RMul(rate, Rat(1, 100))
         IN  RMul(RMul(RMul(proportion, RSub(RInt(1), proportion)), Rat(1, visitors)),
                  RInt(10000))

\* A bound of the interval: NaN, or base - sqrt(gapSq) (side "lower") or
\* base + sqrt(gapSq) (side "upper"), the margin being a square root.
Bound(side, base, gapSq) == [k |-> "fin", side |-> side, base |-> base, gapSq |-> gapSq]

NaNBound == [k |-> "nan", side |-> "none", base |-> RZero, gapSq |-> RZero]

\* (z * se * 100)^2 for se = Math.sqrt((rate / 100 * (1 - rate / 100)) / visitors),
\* for a rate in [0, 100] and visitors >= 0: the radicand is not negative, 0 / 0
\* is NaN and x / 0 is Infinity
MarginSq(rate, visitors) ==
    LET proportion == RMul(rate, Rat(1, 100))
        seSq == FDiv(RMul(proportion, RSub(RInt(1), proportion)), RInt(visitors))
    IN  FScale(seSq, RMul(RMul(Rat(196, 100), Rat(196, 100)), RInt(10000)))

\* Math.max(0, rate - margin): NaN for a NaN margin, 0 when rate - margin <= 0
LowerBound(rate, marginSq) ==
    CASE marginSq.k = "nan" -> NaNBound
      [] marginSq.k = "inf" -> Bound("lower", RZero, RZero)
      [] OTHER -> IF ~RLess(marginSq.v, RMul(rate, rate)) THEN Bound("lower", RZero, RZero)
                  ELSE Bound("lower", rate, marginSq.v)

\* Math.min(100, rate + margin): NaN for a NaN margin, 100 when rate + margin >= 100
UpperBound(rate, marginSq) ==
    LET room == RSub(RInt(100), rate)
    IN  CASE marginSq.k = "nan" -> NaNBound
          [] marginSq.k = "inf" -> Bound("upper", RInt(100), RZero)
          [] OTHER -> IF ~RLess(marginSq.v, RMul(room, room))
                      THEN Bound("upper", RInt(100), RZero)
                      ELSE Bound("upper", rate, marginSq.v)

calculateConfidenceInterval(rate, visitors) ==
    LET marginSq == MarginSq(rate, visitors)
    IN  <<LowerBound(rate, marginSq), UpperBound(rate, marginSq)>>

(***************************************************************************)
(* validateInputs: the errors in the order the code pushes them.  An error *)
(* is its field and the rule it reports (the message text of the code).    *)
(***************************************************************************)
Err(field, rule) == [field |-> field, rule |-> rule]

Opt(cond, e) == IF cond THEN <<e>> ELSE <<>>

BusinessErrors(bm) ==
    Opt(bm.pipelineValue <= 0, Err("pipelineValue", "must be greater than 0"))
    \o Opt(bm.closeRate <= 0 \/ bm.closeRate > 100,
           Err("closeRate", "must be between 0 and 100"))
    \o Opt(bm.monthlyVisitors <= 0, Err("monthlyVisitors", "must be greater than 0"))

\* mutant: the check of conversions against visitors left out
VariantErrorsNoExceedCheck(vs, key) ==
    LET variant == Lookup(vs, key)
    IN  Opt(variant.visitors <= 0, Err(key \o "Visitors", "must be greater than 0"))
        \o Opt(variant.conversions < 0, Err(key \o "Conversions", "cannot be negative"))

VariantErrors(vs, key) ==
    LET variant == Lookup(vs, key)
    IN  Opt(variant.visitors <= 0, Err(key \o "Visitors", "must be greater than 0"))
        \o Opt(variant.conversions < 0, Err(key \o "Conversions", "cannot be negative"))
        \o Opt(variant.conversions > variant.visitors,
               Err(key \o "Conversions", "cannot exceed visitors"))

ValidatedKeys == MandatoryKeys

\* mutant: validation that stops at the first error
validateInputsFailFast(bm, vs) ==
    LET errors == BusinessErrors(bm)
                  \o VariantErrors(vs, ValidatedKeys[1])
                  \o VariantErrors(vs, ValidatedKeys[2])
    IN  [isValid |-> Len(errors) = 0, errors |-> SubSeq(errors, 1, 1)]

validateInputs(bm, vs) ==
    LET errors == BusinessErrors(bm)
                  \o VariantErrors(vs, ValidatedKeys[1])
                  \o VariantErrors(vs, ValidatedKeys[2])
    IN  [isValid |-> Len(errors) = 0, errors |-> errors]

(***************************************************************************)
(* calculateResults.                                                       *)
(***************************************************************************)
NoResult == [isNull |-> TRUE]

\* 1.96 and its square
zCritical == Rat(196, 100)

zCriticalSq == RMul(zCritical, zCritical)

\* mutant: the close rate left out of the revenue
RevenueWithoutCloseRate(bm, rate) ==
    RMul(RMul(RInt(bm.monthlyVisitors), RMul(rate, Rat(1, 100))), RInt(bm.pipelineValue))

Revenue(bm, rate) ==
    RMul(RMul(RMul(RInt(bm.monthlyVisitors), RMul(rate, Rat(1, 100))),
              RInt(bm.pipelineValue)),
         Rat(bm.closeRate, 100))

VariantResult(bm, variant) ==
    LET rate == calculateConversionRate(variant.conversions, variant.visitors)
    IN  [key |-> variant.key,
         name |-> variant.name,
         rate |-> rate,
         errorSq |-> calculateStandardErrorSq(rate, variant.visitors),
         revenue |-> Revenue(bm, rate),
         visitors |-> variant.visitors]

DefaultResults(bm, vs) ==
    [i \in 1..Len(MandatoryKeys) |-> VariantResult(bm, Lookup(vs, MandatoryKeys[i]))]

\* mutant: an entry without visitors is kept
HasValidDataIgnoringVisitors(variant) ==
    ~(variant.conversions < 0 \/ variant.conversions > variant.visitors)

\* the test that drops an additional entry (its negation keeps it)
HasValidData(variant) ==
    ~(variant.visitors <= 0 \/ variant.conversions < 0
        \/ variant.conversions > variant.visitors)

AdditionalVariants(bm, vs) ==
    LET kept == SelectSeq(vs, LAMBDA e : ~IsMandatory(e.key) /\ HasValidData(e))
    IN  [i \in 1..Len(kept) |-> VariantResult(bm, kept[i])]

VariantResults(bm, vs) == DefaultResults(bm, vs) \o AdditionalVariants(bm, vs)

ControlResult(variantResults) ==
    variantResults[CHOOSE i \in 1..Len(variantResults) : variantResults[i].key = "control"]

\* mutant: the filter of the additional entries reused for the best-variant search
ChallengersSkipMandatory(variantResults) ==
    SelectSeq(variantResults, LAMBDA v : ~IsMandatory(v.key))

Challengers(variantResults) == SelectSeq(variantResults, LAMBDA v : v.key # "control")

\* mutant: the later of two equal rates wins
BetterOrEqual(best, current) == IF RLess(current.rate, best.rate) THEN best ELSE current

\* the reducer: (best, current) => current.rate > best.rate ? current : best
Better(best, current) == IF RLess(best.rate, current.rate) THEN current ELSE best

RECURSIVE ReduceFrom(_, _, _)
ReduceFrom(s, i, best) ==
    IF i > Len(s) THEN best ELSE ReduceFrom(s, i + 1, Better(best, s[i]))

\* reduce without an initial value: throws on an empty array
BestVariant(variantResults) ==
    LET cs == Challengers(variantResults)
    IN  IF Len(cs) = 0 THEN [threw |-> TRUE] ELSE ReduceFrom(cs, 2, cs[1])

\* mutant: the difference taken the other way round
ImprovementOfControl(bestVariant, controlResult) ==
    FScale(FDiv(RSub(controlResult.rate, bestVariant.rate), controlResult.rate), RInt(100))

Improvement(bestVariant, controlResult) ==
    FScale(FDiv(RSub(bestVariant.rate, controlResult.rate), controlResult.rate), RInt(100))

\* zScore > 1.96, where zScore =
\*   |variant.rate - control.rate| / sqrt(variant.error^2 + control.error^2)
\* 0 / 0 is NaN (not greater), x / 0 is Infinity for x > 0 (greater)
\* compared through the squares: zScore^2 > 1.96^2
ZScoreSignificant(variant, controlResult) ==
    LET diff  == RAbs(RSub(variant.rate, controlResult.rate))
        sumSq == RAdd(variant.errorSq, controlResult.errorSq)
        zScoreSq == FDiv(RMul(diff, diff), sumSq)
    IN  FGreater(zScoreSq, zCriticalSq)

\* mutant: significance judged for the best variant only
SignificantTargetsBestOnly(variantResults) ==
    <<ControlResult(variantResults), BestVariant(variantResults)>>

\* the results whose significance is judged: variantResults.map(...)
SignificantTargets(variantResults) == variantResults

SignificantResults(variantResults) ==
    LET controlResult == ControlResult(variantResults)
        targets == SignificantTargets(variantResults)
    IN  [i \in 1..Len(targets) |->
           IF targets[i].key = "control" THEN TRUE
           ELSE ZScoreSignificant(targets[i], controlResult)]

RiskLevel(significantResults, improvement) ==
    IF \A i \in 1..Len(significantResults) : significantResults[i]
    THEN (IF FAbsGreater(improvement, RInt(20)) THEN "low" ELSE "medium")
    ELSE "high"

calculateResults(bm, vs) ==
    IF ~validateInputs(bm, vs).isValid THEN NoResult
    ELSE LET variantResults == VariantResults(bm, vs)
             controlResult  == ControlResult(variantResults)
             bestVariant    == BestVariant(variantResults)
         IN  IF "threw" \in DOMAIN bestVariant THEN NoResult
             ELSE LET improvement   == Improvement(bestVariant, controlResult)
                      monthlyImpact == RSub(bestVariant.revenue, controlResult.revenue)
                  IN  [winner |-> IF RLess(controlResult.rate, bestVariant.rate)
                                  THEN bestVariant.name ELSE controlResult.name,
                       improvement |-> improvement,
                       monthlyRevenue |-> bestVariant.revenue,
                       riskLevel |-> RiskLevel(SignificantResults(variantResults),
                                               improvement),
                       variants |-> variantResults,
                       revenueImpact |-> [monthly |-> monthlyImpact,
                                          annual |-> RMul(monthlyImpact, RInt(12))]]

\* what the current render computes
results == calculateResults(businessMetrics, variants)

validation == validateInputs(businessMetrics, variants)

(***************************************************************************)
(* getRecommendation.                                                      *)
(***************************************************************************)
\* mutant: the thresholds themselves are excluded
SampleConfidenceStrict(sampleSize, requiredSample) ==
    IF sampleSize > requiredSample THEN "high"
    ELSE IF RLess(RMul(RInt(requiredSample), Rat(1, 2)), RInt(sampleSize)) THEN "medium"
    ELSE "low"

SampleConfidence(sampleSize, requiredSample) ==
    IF sampleSize >= requiredSample THEN "high"
    ELSE IF ~RLess(RInt(sampleSize), RMul(RInt(requiredSample), Rat(1, 2))) THEN "medium"
    ELSE "low"

\* mutant: the improvement thresholds are inclusive
getRecommendationInclusive(improvement, sampleSize, requiredSample) ==
    LET sampleConfidence == SampleConfidence(sampleSize, requiredSample)
    IN  IF sampleConfidence = "low"
        THEN [text |-> "Need More Data", color |-> "#6B7280", confidence |-> "low",
              action |-> "Continue test to reach required sample size"]
        ELSE IF ~FLess(improvement, RInt(10)) /\ improvement.k # "nan"
        THEN [text |-> "Implement Variant", color |-> "#059669",
              confidence |-> sampleConfidence,
              action |-> "Strong positive impact on revenue"]
        ELSE IF ~FGreater(improvement, RInt(-10)) /\ improvement.k # "nan"
        THEN [text |-> "Keep Control", color |-> "#DC2626",
              confidence |-> sampleConfidence,
              action |-> "Variant shows significant decline"]
        ELSE [text |-> "No Clear Winner", color |-> "#5e62d1",
              confidence |-> sampleConfidence,
              action |-> "Differences are not significant enough"]

getRecommendation(improvement, sampleSize, requiredSample) ==
    LET sampleConfidence == SampleConfidence(sampleSize, requiredSample)
    IN  IF sampleConfidence = "low"
        THEN [text |-> "Need More Data", color |-> "#6B7280", confidence |-> "low",
              action |-> "Continue test to reach required sample size"]
        ELSE IF FGreater(improvement, RInt(10))
        THEN [text |-> "Implement Variant", color |-> "#059669",
              confidence |-> sampleConfidence,
              action |-> "Strong positive impact on revenue"]
        ELSE IF FLess(improvement, RInt(-10))
        THEN [text |-> "Keep Control", color |-> "#DC2626",
              confidence |-> sampleConfidence,
              action |-> "Variant shows significant decline"]
        ELSE [text |-> "No Clear Winner", color |-> "#5e62d1",
              confidence |-> sampleConfidence,
              action |-> "Differences are not significant enough"]

NoCall == [isNull |-> TRUE]

NoRecommendation == [isNull |-> TRUE]

NoStat == [isNull |-> TRUE]

NoPdf == [isNull |-> TRUE]

\* nothing called, nothing exported
Idle ==
    /\ recArgs = NoCall
    /\ recommendation = NoRecommendation
    /\ statArgs = NoCall
    /\ statResult = NoStat
    /\ pdf = NoPdf

FormInit ==
    /\ businessMetrics = [pipelineValue |-> 0, closeRate |-> 0, monthlyVisitors |-> 0]
    /\ variants = << [key |-> "control", name |-> "Control", visitors |-> 0, conversions |-> 0],
                     [key |-> "variant", name |-> "Variant", visitors |-> 0, conversions |-> 0] >>

Init ==
    /\ FormInit
    /\ Idle

(***************************************************************************)
(* Handlers of the form.                                                   *)
(***************************************************************************)
SetPipelineValue ==
    /\ \E x \in PipelineValues :
         businessMetrics' = [businessMetrics EXCEPT !.pipelineValue = x]
    /\ UNCHANGED <<variants, rec, stat, pdf>>

SetCloseRate ==
    /\ \E x \in CloseRateValues :
         businessMetrics' = [businessMetrics EXCEPT !.closeRate = x]
    /\ UNCHANGED <<variants, rec, stat, pdf>>

SetMonthlyVisitors ==
    /\ \E x \in MonthlyVisitorValues :
         businessMetrics' = [businessMetrics EXCEPT !.monthlyVisitors = x]
    /\ UNCHANGED <<variants, rec, stat, pdf>>

SetVisitors ==
    /\ \E i \in 1..Len(variants), x \in VisitorValues :
         variants' = Put(variants, [variants[i] EXCEPT !.visitors = x])
    /\ UNCHANGED <<businessMetrics, rec, stat, pdf>>

SetConversions ==
    /\ \E i \in 1..Len(variants), x \in ConversionValues :
         variants' = Put(variants, [variants[i] EXCEPT !.conversions = x])
    /\ UNCHANGED <<businessMetrics, rec, stat, pdf>>

\* mutant: the button is still rendered with four entries
AddTestPairShownAtFour == Len(variants) <= 4

AddTestPairShown == Len(variants) < 4

AddTestPair ==
    /\ AddTestPairShown
    /\ LET currentIndex == Len(variants) \div 2
           c == [key |-> "control" \o ToString(currentIndex),
                 name |-> "Control " \o ToString(currentIndex),
                 visitors |-> 0, conversions |-> 0]
           v == [key |-> "variant" \o ToString(currentIndex),
                 name |-> "Variant " \o ToString(currentIndex),
                 visitors |-> 0, conversions |-> 0]
       IN  variants' = Put(Put(variants, c), v)
    /\ UNCHANGED <<businessMetrics, rec, stat, pdf>>

RemoveVariant ==
    /\ \E i \in 1..Len(variants) :
         /\ ~IsMandatory(variants[i].key)
         /\ variants' = SelectSeq(variants, LAMBDA e : e.key # variants[i].key)
    /\ UNCHANGED <<businessMetrics, rec, stat, pdf>>

Next ==
    \/ SetPipelineValue
    \/ SetCloseRate
    \/ SetMonthlyVisitors
    \/ SetVisitors
    \/ SetConversions
    \/ AddTestPair
    \/ RemoveVariant

Spec == Init /\ [][Next]_vars

(***************************************************************************)
(* getRecommendation as a function of its arguments: the arguments are     *)
(* drawn, then the call returns.                                           *)
(***************************************************************************)
RecInputs ==
    { [improvement |-> i, sampleSize |-> n, requiredSample |-> r] :
        i \in {Fin(RInt(x)) : x \in ImprovementValues} \cup {NaN, Infinity},
        n \in SampleSizeValues,
        r \in RequiredSampleValues }

RecInit ==
    /\ FormInit
    /\ recArgs \in RecInputs
    /\ recommendation = NoRecommendation
    /\ statArgs = NoCall
    /\ statResult = NoStat
    /\ pdf = NoPdf

CallGetRecommendation ==
    /\ recommendation = NoRecommendation
    /\ recommendation' = getRecommendation(recArgs.improvement, recArgs.sampleSize,
                                           recArgs.requiredSample)
    /\ UNCHANGED <<form, recArgs, stat, pdf>>

RecNext == CallGetRecommendation

SpecRecommend == RecInit /\ [][RecNext]_vars

(***************************************************************************)
(* The statistical functions as functions of their arguments.  A call of   *)
(* calculateConversionRate is the call calculateResults makes for the      *)
(* form's 'variant' entry, beside a drawn 'control' entry and the business *)
(* metrics of a filled form; calculateConfidenceInterval is called on a    *)
(* drawn rate and visitor count.                                           *)
(***************************************************************************)
CountValues == 0..MaxCount

\* the rates in [0, 100] of counts up to MaxCount
RateValues ==
    {calculateConversionRate(q[1], q[2]) :
        q \in {p \in CountValues \X CountValues : p[2] > 0 /\ p[1] <= p[2]}}

RateCalls ==
    { [fn |-> "calculateConversionRate", conversions |-> c, visitors |-> v] :
        c \in -1..(MaxCount + 1), v \in CountValues }

IntervalCalls ==
    { [fn |-> "calculateConfidenceInterval", rate |-> r, visitors |-> v] :
        r \in RateValues, v \in CountValues }

FilledMetrics == [pipelineValue |-> 1000, closeRate |-> 20, monthlyVisitors |-> 10000]

StatInit ==
    /\ statArgs \in RateCalls \cup IntervalCalls
    /\ statResult = NoStat
    /\ IF statArgs.fn = "calculateConversionRate"
       THEN /\ businessMetrics = FilledMetrics
            /\ \E c \in -1..(MaxCount + 1), v \in CountValues :
                  variants = << [key |-> "control", name |-> "Control",
                                 visitors |-> v, conversions |-> c],
                                [key |-> "variant", name |-> "Variant",
                                 visitors |-> statArgs.visitors,
                                 conversions |-> statArgs.conversions] >>
       ELSE FormInit
    /\ recArgs = NoCall
    /\ recommendation = NoRecommendation
    /\ pdf = NoPdf

CallConversionRate ==
    /\ statResult = NoStat
    /\ statArgs.fn = "calculateConversionRate"
    /\ statResult' = [rate |-> calculateConversionRate(statArgs.conversions,
                                                       statArgs.visitors)]
    /\ UNCHANGED <<form, rec, statArgs, pdf>>

CallConfidenceInterval ==
    /\ statResult = NoStat
    /\ statArgs.fn = "calculateConfidenceInterval"
    /\ statResult' = [ci |-> calculateConfidenceInterval(statArgs.rate, statArgs.visitors)]
    /\ UNCHANGED <<form, rec, statArgs, pdf>>

StatNext == CallConversionRate \/ CallConfidenceInterval

SpecStats == StatInit /\ [][StatNext]_vars

(***************************************************************************)
(* The result card with its 'Export Results' button.  The form is one the  *)
(* handlers can build (two to four entries; an added pair in either order  *)
(* after a removal), with sample sizes around the thresholds of            *)
(* getRecommendation; the export writes its recommendation into the PDF.   *)
(***************************************************************************)
ExportVisitorValues == {0, RequiredSample \div 8, RequiredSample \div 4}

ExportConversionValues == {RequiredSample \div 40, RequiredSample \div 8, RequiredSample \div 2}

ExportKeyOrders ==
    { <<"control", "variant">>,
      <<"control", "variant", "control1">>,
      <<"control", "variant", "variant1">>,
      <<"control", "variant", "control1", "variant1">>,
      <<"control", "variant", "variant1", "control1">> }

DefaultName(key) ==
    CASE key = "control"  -> "Control"
      [] key = "variant"  -> "Variant"
      [] key = "control1" -> "Control 1"
      [] key = "variant1" -> "Variant 1"

ExportForms ==
    UNION { { [i \in 1..Len(ks) |->
                 [key |-> ks[i], name |-> DefaultName(ks[i]),
                  visitors |-> vv[i], conversions |-> cc[i]]] :
              vv \in [1..Len(ks) -> ExportVisitorValues],
              cc \in [1..Len(ks) -> ExportConversionValues] } :
            ks \in ExportKeyOrders }

RECURSIVE SumVisitors(_, _)
\* reduce((sum, v) => sum + v.visitors, 0), from position i on
SumVisitors(s, i) ==
    IF i > Len(s) THEN 0 ELSE s[i].visitors + SumVisitors(s, i + 1)

\* the recommendation renderAnalysis shows for a result
renderAnalysis(res) ==
    LET totalVisitors == SumVisitors(res.variants, 1)
    IN  getRecommendation(res.improvement, totalVisitors, RequiredSample)

ExportInit ==
    /\ businessMetrics = FilledMetrics
    /\ variants \in ExportForms
    /\ Idle

\* exportToPDF: nothing without a result; else the recommendation written
exportToPDF ==
    /\ pdf = NoPdf
    /\ LET res == results
       IN  /\ res # NoResult
           /\ LET totalVisitors == SumVisitors(variants, 1)
              IN  pdf' = [totalVisitors |-> totalVisitors,
                          recommendation |->
                              getRecommendation(res.improvement, totalVisitors,
                                                RequiredSample)]
    /\ UNCHANGED <<form, rec, stat>>

ExportNext == exportToPDF

SpecExport == ExportInit /\ [][ExportNext]_vars

(***************************************************************************)
(* Properties.                                                             *)
(***************************************************************************)
control == Lookup(variants, "control")

variant == Lookup(variants, "variant")

Fields(errors) == {errors[i].field : i \in 1..Len(errors)}

Count(errors, e) == Cardinality({i \in 1..Len(errors) : errors[i] = e})

B2N(b) == IF b THEN 1 ELSE 0

AdditionalIndexes == {i \in 1..Len(variants) : ~IsMandatory(variants[i].key)}

InResults(res, key) == \E j \in 1..Len(res.variants) : res.variants[j].key = key

\* C1: calculateResults returns a result exactly when validateInputs reports no
\* error, and no result exactly when the error list is not empty; for validated
\* input the best-variant reduction runs over at least one non-control result.
C1_ResultIffValid ==
    LET res    == results
        errors == validation.errors
    IN  /\ (res # NoResult) <=> (errors = <<>>)
        /\ (res = NoResult) <=> (Len(errors) > 0)
        /\ errors = <<>> =>
              Len(Challengers(VariantResults(businessMetrics, variants))) > 0

\* C1 witness: a validated four-entry form with a result
C1_Witness ==
    /\ validation.errors = <<>>
    /\ results # NoResult
    /\ Len(variants) = 4

\* C2: validateInputs is not fail-fast: the error list holds one error for
\* each violated rule and none for a satisfied rule (pipelineValue > 0,
\* 0 < closeRate <= 100, monthlyVisitors > 0, and for 'control' and 'variant':
\* visitors > 0, conversions >= 0, conversions <= visitors); isValid is true
\* exactly when the list is empty.
C2_RuleCount(key, v) ==
    /\ Count(validation.errors, Err(key \o "Visitors", "must be greater than 0"))
          = B2N(~(v.visitors > 0))
    /\ Count(validation.errors, Err(key \o "Conversions", "cannot be negative"))
          = B2N(~(v.conversions >= 0))
    /\ Count(validation.errors, Err(key \o "Conversions", "cannot exceed visitors"))
          = B2N(~(v.conversions <= v.visitors))

C2_Violations(v) ==
    B2N(~(v.visitors > 0)) + B2N(~(v.conversions >= 0)) + B2N(~(v.conversions <= v.visitors))

C2_ErrorsAreCollected ==
    /\ Count(validation.errors, Err("pipelineValue", "must be greater than 0"))
          = B2N(~(businessMetrics.pipelineValue > 0))
    /\ Count(validation.errors, Err("closeRate", "must be between 0 and 100"))
          = B2N(~(0 < businessMetrics.closeRate /\ businessMetrics.closeRate <= 100))
    /\ Count(validation.errors, Err("monthlyVisitors", "must be greater than 0"))
          = B2N(~(businessMetrics.monthlyVisitors > 0))
    /\ C2_RuleCount("control", control)
    /\ C2_RuleCount("variant", variant)
    /\ Len(validation.errors)
          = B2N(~(businessMetrics.pipelineValue > 0))
            + B2N(~(0 < businessMetrics.closeRate /\ businessMetrics.closeRate <= 100))
            + B2N(~(businessMetrics.monthlyVisitors > 0))
            + C2_Violations(control) + C2_Violations(variant)
    /\ validation.isValid <=> (validation.errors = <<>>)

\* C2 witness: several rules violated at once, one satisfied, and the close
\* rate above 100
C2_Witness ==
    /\ businessMetrics.closeRate > 100
    /\ businessMetrics.pipelineValue > 0
    /\ control.visitors > 0 /\ control.conversions > control.visitors
    /\ variant.visitors = 0 /\ variant.conversions < 0
    /\ Len(validation.errors) >= 4

\* C3 as stated: control visitors = 0 is reported on field 'controlVisitors',
\* and conversions > visitors of any entry of the mapping, mandatory or
\* additional, is reported on that entry's conversions field.
C3_AnyEntryRejected ==
    /\ control.visitors = 0 => "controlVisitors" \in Fields(validation.errors)
    /\ \A i \in 1..Len(variants) :
          variants[i].conversions > variants[i].visitors
            => (variants[i].key \o "Conversions") \in Fields(validation.errors)

\* C3 amended: control visitors = 0 is reported on field 'controlVisitors';
\* conversions > visitors of 'control' or 'variant' is reported on that entry's
\* conversions field; no error ever names a field of an additional entry.
C3_MandatoryEntryRejected ==
    /\ control.visitors = 0 => "controlVisitors" \in Fields(validation.errors)
    /\ \A i \in 1..Len(variants) :
          IF IsMandatory(variants[i].key)
          THEN variants[i].conversions > variants[i].visitors
                 => (variants[i].key \o "Conversions") \in Fields(validation.errors)
          ELSE /\ (variants[i].key \o "Conversions") \notin Fields(validation.errors)
               /\ (variants[i].key \o "Visitors") \notin Fields(validation.errors)

\* C3 witness: control without visitors, 'variant' and an additional entry
\* with more conversions than visitors
C3_Witness ==
    /\ control.visitors = 0
    /\ variant.visitors > 0 /\ variant.conversions > variant.visitors
    /\ \E i \in AdditionalIndexes : variants[i].conversions > variants[i].visitors
    /\ "controlVisitors" \in Fields(validation.errors)
    /\ "variantConversions" \in Fields(validation.errors)

\* C4: in a returned TestResults, an additional entry is in variants exactly
\* when visitors > 0 and 0 <= conversions <= visitors; an additional entry
\* never produces a validation error; and the result's winner, improvement,
\* riskLevel and revenueImpact are those of the form without the excluded
\* entries.
C4_Valid(v) == v.visitors > 0 /\ 0 <= v.conversions /\ v.conversions <= v.visitors

C4_WithoutExcluded ==
    SelectSeq(variants, LAMBDA e : IsMandatory(e.key) \/ C4_Valid(e))

C4_InvalidAdditionalExcluded ==
    LET res    == results
        fields == Fields(validation.errors)
    IN  /\ \A i \in AdditionalIndexes :
              /\ (variants[i].key \o "Conversions") \notin fields
              /\ (variants[i].key \o "Visitors") \notin fields
        /\ res # NoResult =>
              /\ \A i \in AdditionalIndexes :
                    InResults(res, variants[i].key) <=> C4_Valid(variants[i])
              /\ LET r == calculateResults(businessMetrics, C4_WithoutExcluded)
                 IN  /\ r # NoResult
                     /\ r.winner = res.winner
                     /\ r.improvement = res.improvement
                     /\ r.riskLevel = res.riskLevel
                     /\ r.revenueImpact = res.revenueImpact

\* C4 witness: a result over three entries of a four-entry form, the excluded
\* entry holding visitors
C4_Witness ==
    LET res == results
    IN  /\ res # NoResult
        /\ Len(variants) = 4
        /\ Len(res.variants) = 3
        /\ \E i \in AdditionalIndexes :
              /\ variants[i].visitors > 0
              /\ variants[i].conversions > variants[i].visitors
              /\ ~InResults(res, variants[i].key)

ChallengerIndexes(vr) == {i \in 1..Len(vr) : vr[i].key # "control"}

\* the first challenger, in result order, whose rate no challenger exceeds
FirstMaximal(vr) ==
    CHOOSE i \in ChallengerIndexes(vr) :
        /\ \A j \in ChallengerIndexes(vr) : ~RLess(vr[i].rate, vr[j].rate)
        /\ \A j \in ChallengerIndexes(vr) : j < i => RLess(vr[j].rate, vr[i].rate)

\* C5: when the control conversion rate is 0, the result's improvement is
\* flagged as undefined: it is never Infinity or NaN.
C5_ZeroControlRateFlagged ==
    LET res == results
    IN  (res # NoResult /\ ControlResult(res.variants).rate = RZero)
          => res.improvement.k \notin {"inf", "ninf", "nan"}

\* C6: the best variant is the first non-control entry, in result order
\* ('variant', then the kept additional entries in insertion order), whose
\* rate is maximal among the non-control entries; winner is its name if its
\* rate is strictly greater than the control's rate, else the control's name.
C6_BestAndWinner ==
    LET res == results
    IN  res # NoResult =>
          LET vr   == res.variants
              c    == ControlResult(vr)
              best == vr[FirstMaximal(vr)]
          IN  /\ Keys(vr)
                    = MandatoryKeys
                      \o Keys(SelectSeq(variants,
                                        LAMBDA e : ~IsMandatory(e.key) /\ C4_Valid(e)))
              /\ BestVariant(vr) = best
              /\ res.monthlyRevenue = best.revenue
              /\ res.winner = IF RLess(c.rate, best.rate) THEN best.name ELSE c.name

\* C6 witness: two challengers tie at the maximal rate, above the control,
\* and the first of them is the winner
C6_Witness ==
    LET res == results
    IN  /\ res # NoResult
        /\ LET vr == res.variants
               b  == FirstMaximal(vr)
           IN  /\ \E j \in ChallengerIndexes(vr) :
                     /\ j > b
                     /\ vr[j].rate = vr[b].rate
                     /\ vr[j].name # vr[b].name
               /\ RLess(ControlResult(vr).rate, vr[b].rate)
               /\ res.winner = vr[b].name

\* z > 1.96 for z = |v.rate - c.rate| / sqrt(v.error^2 + c.error^2), as
\* |v.rate - c.rate|^2 > 1.96^2 * (v.error^2 + c.error^2); with both errors 0
\* the quotient is Infinity (greater) or, for equal rates, NaN (not greater)
C7_Significant(v, c) ==
    LET d == RSub(v.rate, c.rate)
        s == RAdd(v.errorSq, c.errorSq)
    IN  IF s = RZero THEN d # RZero
        ELSE RLess(RMul(Rat(38416, 10000), s), RMul(d, d))

\* C7: riskLevel is 'high' exactly when some non-control variant of the
\* result is not significant against control; otherwise 'low' when
\* |improvement| > 20 and 'medium' when |improvement| <= 20.
C7_RiskLevel ==
    LET res == results
    IN  res # NoResult =>
          LET vr  == res.variants
              c   == ControlResult(vr)
              imp == res.improvement
              someNotSignificant ==
                \E i \in ChallengerIndexes(vr) : ~C7_Significant(vr[i], c)
          IN  /\ (res.riskLevel = "high") <=> someNotSignificant
              /\ ~someNotSignificant =>
                    /\ (res.riskLevel = "low")
                          <=> (imp.k = "inf"
                                 \/ (imp.k = "fin" /\ RLess(RInt(20), RAbs(imp.v))))
                    /\ (res.riskLevel = "medium")
                          <=> (imp.k = "fin" /\ ~RLess(RInt(20), RAbs(imp.v)))

\* C7 witness: the best variant is significant, another challenger is not,
\* and the risk is high
C7_Witness ==
    LET res == results
    IN  /\ res # NoResult
        /\ LET vr == res.variants
               c  == ControlResult(vr)
           IN  /\ C7_Significant(vr[FirstMaximal(vr)], c)
               /\ \E i \in ChallengerIndexes(vr) : ~C7_Significant(vr[i], c)
               /\ res.riskLevel = "high"

AllRatesIdentical(vr) == \A i \in 1..Len(vr) : vr[i].rate = ControlResult(vr).rate

\* C8: when all variants of the result have the same conversion rate (also
\* when all are 0 or all are 100), improvement is 0, no non-control variant
\* is significant, riskLevel is 'high' and winner is the control's name.
C8_IdenticalRates ==
    LET res == results
    IN  (res # NoResult /\ AllRatesIdentical(res.variants)) =>
          LET vr == res.variants
              c  == ControlResult(vr)
          IN  /\ res.improvement = Fin(RZero)
              /\ \A i \in ChallengerIndexes(vr) : ~C7_Significant(vr[i], c)
              /\ res.riskLevel = "high"
              /\ res.winner = c.name

\* what the code does under C8's premise: the claim, except that the
\* improvement is NaN when the common rate is 0
IdenticalRatesAsComputed ==
    LET res == results
    IN  (res # NoResult /\ AllRatesIdentical(res.variants)) =>
          LET vr == res.variants
              c  == ControlResult(vr)
          IN  /\ res.improvement = IF c.rate = RZero THEN NaN ELSE Fin(RZero)
              /\ \A i \in ChallengerIndexes(vr) : ~C7_Significant(vr[i], c)
              /\ res.riskLevel = "high"
              /\ res.winner = c.name

C9_Revenue(v) ==
    RMul(Rat(businessMetrics.monthlyVisitors * businessMetrics.pipelineValue
               * businessMetrics.closeRate, 10000),
         v.rate)

\* C9: revenue = monthlyVisitors * (rate/100) * pipelineValue * (closeRate/100)
\* for each variant; revenueImpact.monthly = bestVariant.revenue -
\* control.revenue; revenueImpact.annual = 12 * monthly; monthly is > 0, < 0,
\* = 0 exactly as the best variant's rate is above, below, equal to the
\* control's rate.
C9_RevenueImpact ==
    LET res == results
    IN  res # NoResult =>
          LET vr      == res.variants
              c       == ControlResult(vr)
              best    == vr[FirstMaximal(vr)]
              monthly == res.revenueImpact.monthly
          IN  /\ \A i \in 1..Len(vr) : vr[i].revenue = C9_Revenue(vr[i])
              /\ monthly = RSub(C9_Revenue(best), C9_Revenue(c))
              /\ res.revenueImpact.annual = Rat(12 * monthly[1], monthly[2])
              /\ RLess(RZero, monthly) <=> RLess(c.rate, best.rate)
              /\ RLess(monthly, RZero) <=> RLess(best.rate, c.rate)
              /\ (monthly = RZero) <=> (best.rate = c.rate)

\* C9 witness: the best variant converts worse than the control and the
\* impact is negative, twelve times as much over the year
C9_Witness ==
    LET res == results
    IN  /\ res # NoResult
        /\ LET vr == res.variants
           IN  /\ RLess(vr[FirstMaximal(vr)].rate, ControlResult(vr).rate)
               /\ RLess(res.revenueImpact.monthly, RZero)
               /\ RLess(res.revenueImpact.annual, res.revenueImpact.monthly)

C11_Above(imp, c) == imp.k = "inf" \/ (imp.k = "fin" /\ imp.v[1] > c * imp.v[2])

C11_Below(imp, c) == imp.k = "fin" /\ imp.v[1] < c * imp.v[2]

\* C11 as stated: 'Implement Variant' exactly when sampleSize >=
\* requiredSample and improvement > 10, 'Keep Control' exactly when sampleSize
\* >= requiredSample and improvement < -10, 'No Clear Winner' for every other
\* input with sampleSize >= 50% of requiredSample.
C11_TableAsStated ==
    recommendation # NoRecommendation =>
      LET n   == recArgs.sampleSize
          r   == recArgs.requiredSample
          imp == recArgs.improvement
          implement == n >= r /\ C11_Above(imp, 10)
          keep      == n >= r /\ C11_Below(imp, -10)
      IN  /\ (recommendation.text = "Implement Variant") <=> implement
          /\ (recommendation.text = "Keep Control") <=> keep
          /\ (recommendation.text = "No Clear Winner")
                <=> (2 * n >= r /\ ~implement /\ ~keep)

\* C11 amended: first match wins over: sampleSize < 50% of requiredSample
\* gives 'Need More Data'; otherwise improvement > 10 gives 'Implement
\* Variant' and improvement < -10 gives 'Keep Control', with confidence
\* 'medium' below requiredSample and 'high' from it on; every other input
\* with sampleSize >= 50% of requiredSample (improvement exactly 10 or -10,
\* or NaN, included) gives 'No Clear Winner'.
C11_TableAsComputed ==
    recommendation # NoRecommendation =>
      LET n   == recArgs.sampleSize
          r   == recArgs.requiredSample
          imp == recArgs.improvement
          implement == 2 * n >= r /\ C11_Above(imp, 10)
          keep      == 2 * n >= r /\ C11_Below(imp, -10)
      IN  /\ (recommendation.text = "Need More Data") <=> (2 * n < r)
          /\ (recommendation.text = "Implement Variant") <=> implement
          /\ (recommendation.text = "Keep Control") <=> keep
          /\ (recommendation.text = "No Clear Winner")
                <=> (2 * n >= r /\ ~implement /\ ~keep)
          /\ (implement \/ keep) =>
                recommendation.confidence = IF n >= r THEN "high" ELSE "medium"

\* C11 witness: half the required sample and an improvement above 10 give
\* 'Implement Variant' with confidence 'medium'
C11_Witness ==
    /\ recommendation # NoRecommendation
    /\ recArgs.sampleSize < recArgs.requiredSample
    /\ recArgs.improvement = Fin(RInt(15))
    /\ recommendation.text = "Implement Variant"
    /\ recommendation.confidence = "medium"

InPercentRange(r) == ~RLess(r, RZero) /\ ~RLess(RInt(100), r)

LowerAtLeast(b, x) ==
    \* x <= base - sqrt(gapSq)
    /\ ~RLess(b.base, x)
    /\ ~RLess(RMul(RSub(b.base, x), RSub(b.base, x)), b.gapSq)

UpperAtMost(b, x) ==
    \* base + sqrt(gapSq) <= x
    /\ ~RLess(x, b.base)
    /\ ~RLess(RMul(RSub(x, b.base), RSub(x, b.base)), b.gapSq)

\* the square of 1.96 * se for the standard error se, in percent, of a rate
\* over visitors > 0
C13_MarginSq(rate, visitors) ==
    RMul(Rat(38416, 10000), RMul(RMul(rate, RSub(RInt(100), rate)), Rat(1, visitors)))

IntervalAsComputed ==
    (statResult # NoStat /\ statArgs.fn = "calculateConfidenceInterval") =>
      LET rate  == statArgs.rate
          lower == statResult.ci[1]
          upper == statResult.ci[2]
      IN  IF statArgs.visitors = 0 /\ rate \in {RZero, RInt(100)}
          THEN lower.k = "nan" /\ upper.k = "nan"
          ELSE /\ lower.k = "fin" /\ upper.k = "fin"
               /\ LowerAtLeast(lower, RZero)
               /\ ~RLess(rate, lower.base)
               /\ ~RLess(upper.base, rate)
               /\ UpperAtMost(upper, RInt(100))
               /\ statArgs.visitors = 0 =>
                     /\ lower = Bound("lower", RZero, RZero)
                     /\ upper = Bound("upper", RInt(100), RZero)

\* C14: after any sequence of 'Add Test Pair' and remove actions the mapping
\* holds 2 to 4 entries with distinct keys, 'control' and 'variant' among
\* them; calculateResults treats exactly the entry 'control' as the control,
\* and every other result entry, an added 'control1' included, is a
\* challenger: the best variant's rate is at least its rate, and the control
\* is the winner only if no such entry has a greater rate.
C14_MappingShape ==
    LET res == results
    IN  /\ Len(variants) >= 2 /\ Len(variants) <= 4
        /\ \A i, j \in 1..Len(variants) :
               variants[i].key = variants[j].key => i = j
        /\ HasKey(variants, "control") /\ HasKey(variants, "variant")
        /\ res # NoResult =>
              LET vr == res.variants
                  c  == ControlResult(vr)
              IN  /\ Cardinality({i \in 1..Len(vr) : vr[i].key = "control"}) = 1
                  /\ c = VariantResult(businessMetrics, Lookup(variants, "control"))
                  /\ Len(Challengers(vr)) = Len(vr) - 1
                  /\ \A i \in 1..Len(vr) :
                        vr[i].key # "control" =>
                          /\ \E k \in 1..Len(Challengers(vr)) : Challengers(vr)[k] = vr[i]
                          /\ ~RLess(BestVariant(vr).rate, vr[i].rate)
                          /\ RLess(c.rate, vr[i].rate) => res.winner # c.name

\* C14 witness: a pair was added, 'control1' removed and a pair added again
\* (four entries, 'variant1' before 'control1'); 'control1' has the greatest
\* rate and wins against 'control'
C14_Witness ==
    LET res == results
    IN  /\ Keys(variants) = <<"control", "variant", "variant1", "control1">>
        /\ res # NoResult
        /\ InResults(res, "control1")
        /\ res.winner = Lookup(variants, "control1").name
        /\ res.winner # ControlResult(res.variants).name

\* label, confidence and action of a recommendation
Shown(r) == <<r.text, r.confidence, r.action>>

\* C15: for every form with a result, the recommendation on screen (sample
\* size: the visitors of the result's entries) and the one written to the
\* PDF (sample size: the visitors of all entries of the form) have the same
\* label, confidence and action, also when an additional entry with visitors
\* is excluded from the result.
C15_SameRecommendation ==
    pdf # NoPdf => Shown(pdf.recommendation) = Shown(renderAnalysis(results))

\* what the code does under C15's premise: the two agree whenever every
\* entry with visitors is in the result
SameRecommendationAsComputed ==
    pdf # NoPdf =>
      LET res == results
      IN  (\A i \in 1..Len(variants) :
              variants[i].visitors # 0 => InResults(res, variants[i].key))
            => pdf.recommendation = renderAnalysis(res)

\* the exports in which an excluded entry moves the sample size from below
\* half of the required sample (on screen) to at least half of it (in the PDF)
ExcludedEntryCounted ==
    /\ pdf # NoPdf
    /\ renderAnalysis(results).text = "Need More Data"
    /\ pdf.recommendation.text = "Implement Variant"

\* C16: the recommendation never contradicts the winner: for every result
\* and every sample size, 'Implement Variant' implies that the winner is the
\* best non-control variant, whose rate is strictly greater than the
\* control's, and 'Keep Control' implies that the winner is the control;
\* also when the control rate is 0.
C16_RecommendationAgreesWithWinner ==
    LET res == results
    IN  res # NoResult =>
          LET vr   == res.variants
              c    == ControlResult(vr)
              best == BestVariant(vr)
          IN  \A n \in SampleSizeValues :
                LET r == getRecommendation(res.improvement, n, RequiredSample)
                IN  /\ r.text = "Implement Variant" =>
                          /\ RLess(c.rate, best.rate)
                          /\ res.winner = best.name
                          /\ res.winner # c.name
                    /\ r.text = "Keep Control" =>
                          /\ res.winner = c.name
                          /\ RLess(best.rate, c.rate)

\* C16 witness: the control rate is 0, a challenger has conversions, and with
\* the required sample the recommendation is 'Implement Variant'
C16_Witness ==
    LET res == results
    IN  /\ res # NoResult
        /\ ControlResult(res.variants).rate = RZero
        /\ getRecommendation(res.improvement, RequiredSample, RequiredSample).text
              = "Implement Variant"
        /\ res.winner = BestVariant(res.variants).name

\* a result for which 'Keep Control' is recommended with half the required
\* sample
KeepControlRecommended ==
    LET res == results
    IN  /\ res # NoResult
        /\ getRecommendation(res.improvement, RequiredSample \div 2, RequiredSample).text
              = "Keep Control"

\* every entry of the mapping is in the next mapping, unchanged
EntriesKept ==
    \A i \in 1..Len(variants) :
        /\ HasKey(variants', variants[i].key)
        /\ Lookup(variants', variants[i].key) = variants[i]

\* C17: 'Add Test Pair' leaves name, visitors and conversions of every entry
\* already in the mapping unchanged (it only adds keys), in every state where
\* the button is shown, the three-entry state left by removing one entry of
\* an added pair included.
C17_AddTestPairKeepsEntries == [][AddTestPair => EntriesKept]_vars

\* what the code does under C17's premise: the entries are kept when the
\* mapping holds two entries, and in every state the entries 'control' and
\* 'variant' are kept
AddTestPairAsComputed ==
    [][AddTestPair =>
         /\ Len(variants) = 2 => EntriesKept
         /\ Lookup(variants', "control") = Lookup(variants, "control")
         /\ Lookup(variants', "variant") = Lookup(variants, "variant")
         /\ Len(variants') = 4]_vars

====
